---- MODULE Spec2Model ----
(***************************************************************************)
(* The C-PAC BIDS-App driver (run.py): resolution of the pipeline and data *)
(* configuration from the command line, the two artifact writes and the    *)
(* dispatch to the execution engine.  One run of the script is a process   *)
(* r; runs share the file system.  Strings that the script inspects        *)
(* (directories) are sequences of characters; file names are sequences of  *)
(* tokens appended to them.  The script is Python 2 (line 107); an         *)
(* uncaught exception ends the run with a traceback and exit status 1.     *)
(* The command line is fixed at line 101; an argument enters `args` at     *)
(* the line that first uses it, which gives the same runs as choosing all  *)
(* of them at the start.                                                   *)
(***************************************************************************)
EXTENDS Integers, Sequences, FiniteSets, TLC

\* ------------------------------------------------------------------ bounds
MaxSubjects == 2    \* longest subjectList of a supplied data config file
MaxNdx == 1         \* largest --participant_ndx tried (smallest is -1)
MaxMem == 1         \* largest --mem_gb tried, and --mem_mb in units of 512
MaxClock == 2       \* seconds the clock may show while concurrent runs last

\* --------------------------------------------------------------- optionals
\* An optional command line argument: None when absent, Some(v) when given.
None == <<>>
Some(v) == <<v>>
Val(a) == a[1]

\* bool(args.x) of an argparse string argument: None is false, every
\* supplied (non-empty) string is true, "0" included.
Truthy(a) == a # None

\* ----------------------------------------------------------------- strings
LowerChar(c) == IF c = "S" THEN "s" ELSE c
Lower(s) == [i \in DOMAIN s |-> LowerChar(s[i])]

StartsWith(s, p) == Len(s) >= Len(p) /\ SubSeq(s, 1, Len(p)) = p

Contains(s, p) == \E i \in 1..(Len(s) - Len(p) + 1) : SubSeq(s, i, i + Len(p) - 1) = p

S3Prefix == <<"s", "3", ":", "/", "/">>

\* os.path.join(a, b) for a relative b
PathJoin(a, b) == IF a # <<>> /\ a[Len(a)] = "/" THEN a \o b ELSE a \o <<"/">> \o b

Scratch == <<"/", "scratch">>

\* the directories tried as output_dir
OutputDirs ==
    { <<"/", "o">>,
      <<"s", "3", ":", "/", "/", "b">>,
      <<"S", "3", ":", "/", "/", "b">>,
      <<"/", "m", "/", "s", "3", ":", "/", "/", "b">> }

\* line 119: the output directory is checked on disk unless it is an S3 URL
IsS3Url(dir) == StartsWith(Lower(dir), S3Prefix)

\* lines 144, 180, 212, 301: "s3://" in args.output_dir.lower()
MentionsS3(dir) == Contains(Lower(dir), S3Prefix)

\* ------------------------------------------------------------ dictionaries
Put(d, k, v) == [x \in (DOMAIN d) \cup {k} |-> IF x = k THEN v ELSE d[x]]

EmptyDict == [x \in {} |-> 0]

Min(a, b) == IF a <= b THEN a ELSE b


\* ------------------------------------------------------------------- state
VARIABLES
    args,             \* r -> the arguments of the command line read so far
    pc,               \* r -> position of the run in the script
    exit_status,      \* r -> None while running, Some(status) once ended
    exit_at,          \* r -> source line at which the run ended (0: running)
    exception,        \* r -> the uncaught exception that ended the run, or ""
    gui_runs,         \* r -> calls of CPAC.GUI.run
    validator_runs,   \* r -> calls of bids-validator
    layout,           \* r -> subjects indexed by BIDSLayout (None: not built)
    pipeline_config,  \* r -> the pipeline configuration dictionary
    st,               \* r -> the run timestamp (0: not taken)
    config_file,      \* r -> path of the pipeline config file
    data_config,      \* r -> the data configuration dictionary
    data_config_file, \* r -> name, then path, of the data config file
    written,          \* r -> the paths the run has written, in order
    engine_runs,      \* r -> calls of CPAC.pipeline.cpac_runner.run
    fs,               \* path -> document; the file system shared by all runs
    clock             \* the wall clock, in seconds

vars == << args, pc, exit_status, exit_at, exception, gui_runs, validator_runs,
           layout, pipeline_config, st, config_file, data_config,
           data_config_file, written, engine_runs, fs, clock >>

Runs == DOMAIN pc

\* ------------------------------------------------------------ command line
Levels == {"participant", "group", "test_config", "GUI"}

\* --participant_label values tried: labels are sequences of characters
Label02 == <<"0", "2">>
Label04 == <<"0", "4">>
LabelSets == { None, Some({Label02, Label04}) }

\* the datasets tried: what layout.get_subjects() finds under bids_dir
Datasets == { {}, {<<"0", "1">>, <<"0", "2">>, <<"0", "3">>} }

MemGbValues == {None} \cup {Some(g) : g \in 0..MaxMem}
MemMbValues == {None} \cup {Some(512 * m) : m \in 1..MaxMem}
NdxValues == {None} \cup {Some(i) : i \in (-1)..MaxNdx}

\* the base pipeline configuration files tried (--pipeline_file)
BaseConfigs ==
    { [num_ants_threads |-> 2],
      [num_ants_threads |-> 2, workingDirectory |-> <<"/", "w">>],
      [num_ants_threads |-> 2, workingDirectory |-> <<"/", "w">>,
       removeWorkingDir |-> FALSE] }

\* the subjectList of the supplied data config files tried
SubjectName(i) == <<"sub-", ToString(i)>>
ManifestLists == { [i \in 1..k |-> SubjectName(i)] : k \in 0..MaxSubjects }

\* the script reads argument k with value v
ReadArg(r, k, v) == args' = [args EXCEPT ![r] = Put(@, k, v)]

HasArg(r, k) == k \in DOMAIN args[r]

InitRuns(runs) ==
    /\ args = [r \in runs |-> EmptyDict]
    /\ pc = [r \in runs |-> "start"]
    /\ exit_status = [r \in runs |-> None]
    /\ exit_at = [r \in runs |-> 0]
    /\ exception = [r \in runs |-> ""]
    /\ gui_runs = [r \in runs |-> 0]
    /\ validator_runs = [r \in runs |-> 0]
    /\ layout = [r \in runs |-> None]
    /\ pipeline_config = [r \in runs |-> EmptyDict]
    /\ st = [r \in runs |-> 0]
    /\ config_file = [r \in runs |-> None]
    /\ data_config = [r \in runs |-> EmptyDict]
    /\ data_config_file = [r \in runs |-> None]
    /\ written = [r \in runs |-> <<>>]
    /\ engine_runs = [r \in runs |-> <<>>]
    /\ fs = EmptyDict
    /\ clock = 1

\* the single run of Spec
OneRun == {1}

Init == InitRuns(OneRun)

\* ---------------------------------------------------------------- endings
\* sys.exit(status) at `line`
Exit(r, line, status) ==
    /\ pc' = [pc EXCEPT ![r] = "done"]
    /\ exit_status' = [exit_status EXCEPT ![r] = Some(status)]
    /\ exit_at' = [exit_at EXCEPT ![r] = line]
    /\ UNCHANGED exception

\* an exception raised at `line` and caught nowhere: traceback, status 1
Raise(r, line, name) ==
    /\ pc' = [pc EXCEPT ![r] = "done"]
    /\ exit_status' = [exit_status EXCEPT ![r] = Some(1)]
    /\ exit_at' = [exit_at EXCEPT ![r] = line]
    /\ exception' = [exception EXCEPT ![r] = name]

Goto(r, label) ==
    /\ pc' = [pc EXCEPT ![r] = label]
    /\ UNCHANGED << exit_status, exit_at, exception >>

\* ExitStatusAt with the missing-directory exits reporting failure
ExitStatusAtDirsFail(line) ==
    CASE line = 111 -> 1
      [] line = 116 -> 1
      [] line = 121 -> 1
      [] line = 227 -> 0
      [] line = 266 -> 1
      [] line = 296 -> 1
      [] line = 326 -> 0

\* the status each sys.exit of the script passes, by source line
ExitStatusAt(line) ==
    CASE line = 111 -> 1
      [] line = 116 -> 0
      [] line = 121 -> 0
      [] line = 227 -> 0
      [] line = 266 -> 1
      [] line = 296 -> 1
      [] line = 326 -> 0

\* ------------------------------------------------- lines 106-137: preamble
\* lines 106-111: the GUI short-circuit
CheckGuiWith(r, analysis_level) ==
    /\ pc[r] = "start"
    /\ ReadArg(r, "analysis_level", analysis_level)
    /\ \/ /\ analysis_level = "GUI"
          /\ gui_runs' = [gui_runs EXCEPT ![r] = @ + 1]
          /\ Exit(r, 111, ExitStatusAt(111))
       \/ /\ analysis_level # "GUI"
          /\ Goto(r, "check_bids_dir")
          /\ UNCHANGED gui_runs
    /\ UNCHANGED << validator_runs, layout, pipeline_config, st, config_file,
                    data_config, data_config_file, written, engine_runs, fs,
                    clock >>

CheckGui(r) == \E analysis_level \in Levels : CheckGuiWith(r, analysis_level)

\* the directories tried as bids_dir
BidsDirs == { <<"/", "d">>, <<"S", "3", ":", "/", "/", "d">> }

\* lines 113-116: bids_dir must exist unless it is an S3 URL
CheckBidsDir(r) ==
    /\ pc[r] = "check_bids_dir"
    /\ \E bids_dir \in BidsDirs, exists \in BOOLEAN :
          \/ /\ ~IsS3Url(bids_dir) /\ ~exists
             /\ Exit(r, 116, ExitStatusAt(116))
          \/ /\ IsS3Url(bids_dir) \/ exists
             /\ Goto(r, "check_output_dir")
    /\ UNCHANGED << args, gui_runs, validator_runs, layout, pipeline_config,
                    st, config_file, data_config, data_config_file, written,
                    engine_runs, fs, clock >>

\* lines 118-121: output_dir must exist unless it is an S3 URL
CheckOutputDirWith(r, output_dir) ==
    /\ pc[r] = "check_output_dir"
    /\ ReadArg(r, "output_dir", output_dir)
    /\ \E exists \in BOOLEAN :
          \/ /\ ~IsS3Url(output_dir) /\ ~exists
             /\ Exit(r, 121, ExitStatusAt(121))
          \/ /\ IsS3Url(output_dir) \/ exists
             /\ Goto(r, "validate")
    /\ UNCHANGED << gui_runs, validator_runs, layout, pipeline_config, st,
                    config_file, data_config, data_config_file, written,
                    engine_runs, fs, clock >>

CheckOutputDir(r) == \E output_dir \in OutputDirs : CheckOutputDirWith(r, output_dir)

\* lines 123-133: the validator runs unless --skip_bids_validator is given
\* without --bids_validator_config
Validate(r) ==
    /\ pc[r] = "validate"
    /\ \E bids_validator_config \in BOOLEAN, skip_bids_validator \in BOOLEAN :
          validator_runs' =
              [validator_runs EXCEPT ![r] =
                  IF bids_validator_config \/ ~skip_bids_validator
                  THEN @ + 1 ELSE @]
    /\ Goto(r, "load_pipeline_config")
    /\ UNCHANGED << args, gui_runs, layout, pipeline_config, st, config_file,
                    data_config, data_config_file, written, engine_runs, fs,
                    clock >>

\* line 137: yaml.load(open(args.pipeline_file)); an unreadable file raises
LoadPipelineConfigFrom(r, bases) ==
    /\ pc[r] = "load_pipeline_config"
    /\ \/ /\ \E base \in bases :
                pipeline_config' = [pipeline_config EXCEPT ![r] = base]
          /\ Goto(r, "conform")
       \/ /\ Raise(r, 137, "IOError")
          /\ UNCHANGED pipeline_config
    /\ UNCHANGED << args, gui_runs, validator_runs, layout, st, config_file,
                    data_config, data_config_file, written, engine_runs, fs,
                    clock >>

LoadPipelineConfig(r) == LoadPipelineConfigFrom(r, BaseConfigs)

\* ------------------------------------------ lines 142-205: override merger
\* lines 142-149
SetDirectories(cfg, output_dir) ==
    LET c1 == Put(cfg, "outputDirectory", PathJoin(output_dir, <<"output">>))
        root == IF ~MentionsS3(output_dir) THEN output_dir ELSE Scratch
        c2 == Put(c1, "crashLogDirectory", PathJoin(root, <<"crash">>))
    IN  Put(c2, "logDirectory", PathJoin(root, <<"log">>))

\* ResolveMemory with the two tests in the other order
ResolveMemoryMbFirst(mem_gb, mem_mb) ==
    IF Truthy(mem_mb) THEN Val(mem_mb)
    ELSE IF Truthy(mem_gb) THEN 1024 * Val(mem_gb)
    ELSE 6144

\* lines 151-156; a float is held as a whole number of 1/1024 GB, so that
\* float(mem_gb) is 1024 * mem_gb, float(mem_mb) / 1024.0 is mem_mb and
\* 6.0 is 6144
ResolveMemory(mem_gb, mem_mb) ==
    IF Truthy(mem_gb) THEN 1024 * Val(mem_gb)
    ELSE IF Truthy(mem_mb) THEN Val(mem_mb)
    ELSE 6144

\* lines 158-160
SetResources(cfg, mem_gb, mem_mb, n_cpus) ==
    LET c1 == Put(cfg, "maximumMemoryPerParticipant", ResolveMemory(mem_gb, mem_mb))
        c2 == Put(c1, "maxCoresPerParticipant", n_cpus)
        c3 == Put(c2, "numParticipantsAtOnce", 1)
    IN  Put(c3, "num_ants_threads", Min(n_cpus, cfg.num_ants_threads))

\* a credentials argument: absent, an existing file, a missing file
NoCreds == [given |-> FALSE, isfile |-> FALSE]
CredsCases == { NoCreds, [given |-> TRUE, isfile |-> TRUE],
                [given |-> TRUE, isfile |-> FALSE] }

\* lines 162-172, for the credential files that exist
SetCredentials(cfg, aws_input, aws_output) ==
    LET c1 == IF aws_input.given
              THEN Put(cfg, "awsCredentialsFile", "aws_input_creds") ELSE cfg
    IN  IF aws_output.given
        THEN Put(c1, "awsOutputBucketCredentials", "aws_output_creds") ELSE c1

\* SetWorkingDir without the retention branch of lines 180-182
SetWorkingDirNeverKept(cfg, save_working_dir, output_dir) ==
    IF save_working_dir /\ MentionsS3(output_dir)
    THEN cfg
    ELSE Put(Put(cfg, "removeWorkingDir", TRUE),
             "workingDirectory", PathJoin(Scratch, <<"working">>))

\* lines 179-189: with --save_working_dir and an output_dir that mentions
\* s3:// only a message is printed and neither key is assigned
SetWorkingDir(cfg, save_working_dir, output_dir) ==
    IF save_working_dir
    THEN IF ~MentionsS3(output_dir)
         THEN Put(Put(cfg, "removeWorkingDir", FALSE),
                  "workingDirectory", PathJoin(output_dir, <<"working">>))
         ELSE cfg
    ELSE Put(Put(cfg, "removeWorkingDir", TRUE),
             "workingDirectory", PathJoin(Scratch, <<"working">>))

\* the --n_cpus values tried
CpuCounts == {1, 4}

\* the arguments lines 142-205 read
MergeInputs ==
    [ mem_gb : MemGbValues, mem_mb : MemMbValues, n_cpus : CpuCounts,
      aws_input_creds : CredsCases, aws_output_creds : CredsCases,
      disable_file_logging : BOOLEAN, save_working_dir : BOOLEAN ]

\* the command line that gives only the three positional arguments
DefaultInputs ==
    [ mem_gb |-> None, mem_mb |-> None, n_cpus |-> 1,
      aws_input_creds |-> NoCreds, aws_output_creds |-> NoCreds,
      disable_file_logging |-> FALSE, save_working_dir |-> FALSE ]

\* lines 142-205 as one step: the merge, then the report of the resolved
\* values, which reads workingDirectory and removeWorkingDir (line 191 only
\* prints args.participant_label)
ConformPipelineConfigWith(r, in) ==
    /\ pc[r] = "conform"
    /\ args' = [args EXCEPT ![r] =
                  Put(Put(Put(@, "mem_gb", in.mem_gb), "mem_mb", in.mem_mb),
                      "save_working_dir", in.save_working_dir)]
    /\ LET output_dir == args[r].output_dir
           c1 == SetDirectories(pipeline_config[r], output_dir)
           c2 == SetResources(c1, in.mem_gb, in.mem_mb, in.n_cpus)
           c3 == SetCredentials(c2, in.aws_input_creds, in.aws_output_creds)
           c4 == Put(c3, "disable_log", in.disable_file_logging)
           c5 == SetWorkingDir(c4, in.save_working_dir, output_dir)
       IN  \/ /\ in.aws_input_creds.given /\ ~in.aws_input_creds.isfile
              /\ pipeline_config' = [pipeline_config EXCEPT ![r] = c2]
              /\ Raise(r, 166, "IOError")
           \/ /\ in.aws_input_creds.given => in.aws_input_creds.isfile
              /\ in.aws_output_creds.given /\ ~in.aws_output_creds.isfile
              /\ pipeline_config' =
                    [pipeline_config EXCEPT ![r] =
                        SetCredentials(c2, in.aws_input_creds, NoCreds)]
              /\ Raise(r, 172, "IOError")
           \/ /\ in.aws_input_creds.given => in.aws_input_creds.isfile
              /\ in.aws_output_creds.given => in.aws_output_creds.isfile
              /\ pipeline_config' = [pipeline_config EXCEPT ![r] = c5]
              /\ IF "workingDirectory" \notin DOMAIN c5
                 THEN Raise(r, 199, "KeyError")
                 ELSE IF "removeWorkingDir" \notin DOMAIN c5
                 THEN Raise(r, 202, "KeyError")
                 ELSE Goto(r, "write_pipeline_config")
    /\ UNCHANGED << gui_runs, validator_runs, layout, st, config_file,
                    data_config, data_config_file, written, engine_runs, fs,
                    clock >>

ConformPipelineConfig(r) == \E in \in MergeInputs : ConformPipelineConfigWith(r, in)

\* ---------------------------------------------- lines 207-227: first write
\* lines 212-215 and 301-304: artifacts go under output_dir unless it
\* mentions s3://, and then under /scratch
ArtifactRoot(output_dir) == IF ~MentionsS3(output_dir) THEN output_dir ELSE Scratch

\* lines 213, 215: the pipeline config file name
PipelineConfigName(stamp) == <<"cpac_pipeline_config_", ToString(stamp), ".yml">>

\* lines 207-218: take the timestamp, name and write the pipeline config
WritePipelineConfig(r) ==
    /\ pc[r] = "write_pipeline_config"
    /\ LET path == PathJoin(ArtifactRoot(args[r].output_dir), PipelineConfigName(clock))
       IN  /\ st' = [st EXCEPT ![r] = clock]
           /\ config_file' = [config_file EXCEPT ![r] = Some(path)]
           /\ fs' = Put(fs, path, pipeline_config[r])
           /\ written' = [written EXCEPT ![r] = Append(@, path)]
    /\ Goto(r, "group")
    /\ UNCHANGED << args, gui_runs, validator_runs, layout, pipeline_config,
                    data_config, data_config_file, engine_runs, clock >>

\* StopsAfterPipelineConfig with the dry run stopping too
StopsAfterPipelineConfigOrDryRun(level) == level \in {"group", "test_config"}

\* line 221: the levels that stop once the pipeline config is written
StopsAfterPipelineConfig(level) == level = "group"

\* lines 220-227: a group level run reports and exits
GroupExit(r) ==
    /\ pc[r] = "group"
    /\ \/ /\ StopsAfterPipelineConfig(args[r].analysis_level)
          /\ Exit(r, 227, ExitStatusAt(227))
       \/ /\ ~StopsAfterPipelineConfig(args[r].analysis_level)
          /\ Goto(r, "data_config")
    /\ UNCHANGED << args, gui_runs, validator_runs, layout, pipeline_config, st,
                    config_file, data_config, data_config_file, written,
                    engine_runs, fs, clock >>

\* ------------------------------------------ lines 230-299: data config
\* lines 230-239, no --data_config_file: BIDSLayout indexes the dataset, then
\* the dictionary display names its keys with the undefined names dataFormat,
\* bidsBaseDir, ...: NameError, so lines 240-268 never run
\* (participant_label, which line 245 would use, enters args here)
ScanDataset(r) ==
    /\ pc[r] = "data_config"
    /\ \E participant_label \in LabelSets :
          args' = [args EXCEPT ![r] =
                     Put(Put(@, "data_config_file", None),
                         "participant_label", participant_label)]
    /\ \E subjects \in Datasets : layout' = [layout EXCEPT ![r] = Some(subjects)]
    /\ Raise(r, 235, "NameError")
    /\ UNCHANGED << gui_runs, validator_runs, pipeline_config, st, config_file,
                    data_config, data_config_file, written, engine_runs, fs,
                    clock >>

\* lines 269-271: the supplied data config file is loaded as it is
LoadDataConfigFrom(r, lists) ==
    /\ pc[r] = "data_config"
    /\ ReadArg(r, "data_config_file", Some("data_config.yml"))
    /\ \/ /\ \E subjectList \in lists :
                data_config' = [data_config EXCEPT ![r] = [subjectList |-> subjectList]]
          /\ Goto(r, "participant_ndx")
       \/ /\ Raise(r, 271, "IOError")
          /\ UNCHANGED data_config
    /\ UNCHANGED << gui_runs, validator_runs, layout, pipeline_config, st,
                    config_file, data_config_file, written, engine_runs, fs,
                    clock >>

LoadDataConfig(r) == LoadDataConfigFrom(r, ManifestLists)

\* line 289: 0 <= int(args.participant_ndx) < len(subjectList)
NdxInRange(ndx, subjectList) == 0 <= ndx /\ ndx < Len(subjectList)

\* line 299: the data config file name of a run without --participant_ndx
DataConfigName(stamp) == <<"cpac_data_config_", ToString(stamp), ".yml">>

\* lines 288-299: args.participant_ndx is the string argparse stored, so
\* "0" is true at line 288, and at line 291 the list is indexed with that
\* string: TypeError
SelectParticipantWith(r, ndx) ==
    /\ pc[r] = "participant_ndx"
    /\ ReadArg(r, "participant_ndx", ndx)
    /\ \/ /\ Truthy(ndx)
          /\ NdxInRange(Val(ndx), data_config[r].subjectList)
          /\ Raise(r, 291, "TypeError")
          /\ UNCHANGED data_config_file
       \/ /\ Truthy(ndx)
          /\ ~NdxInRange(Val(ndx), data_config[r].subjectList)
          /\ Exit(r, 296, ExitStatusAt(296))
          /\ UNCHANGED data_config_file
       \/ /\ ~Truthy(ndx)
          /\ data_config_file' =
                [data_config_file EXCEPT ![r] = Some(DataConfigName(st[r]))]
          /\ Goto(r, "write_data_config")
    /\ UNCHANGED << gui_runs, validator_runs, layout, pipeline_config, st,
                    config_file, data_config, written, engine_runs, fs, clock >>

SelectParticipant(r) == \E ndx \in NdxValues : SelectParticipantWith(r, ndx)

\* lines 301-307: place and write the data config
WriteDataConfig(r) ==
    /\ pc[r] = "write_data_config"
    /\ LET path == PathJoin(ArtifactRoot(args[r].output_dir), Val(data_config_file[r]))
       IN  /\ data_config_file' = [data_config_file EXCEPT ![r] = Some(path)]
           /\ fs' = Put(fs, path, data_config[r])
           /\ written' = [written EXCEPT ![r] = Append(@, path)]
    /\ Goto(r, "dispatch")
    /\ UNCHANGED << args, gui_runs, validator_runs, layout, pipeline_config, st,
                    config_file, data_config, engine_runs, clock >>

\* ------------------------------------------------ lines 309-326: dispatch
\* InvokesEngine with the test reversed to "not a dry run"
InvokesEngineUnlessGroup(level) == level # "group"

\* line 309: the levels that invoke the execution engine
InvokesEngine(level) == level = "participant"

\* lines 314-320: the engine is handed the two paths and reads the files
EngineCall(r) ==
    [ config_file |-> Val(config_file[r]),
      data_config_file |-> Val(data_config_file[r]),
      n_procs |-> pipeline_config[r].maxCoresPerParticipant,
      memory_gb |-> pipeline_config[r].maximumMemoryPerParticipant \div 1024,
      subjectList |-> fs[Val(data_config_file[r])].subjectList ]

\* lines 309-324
Dispatch(r) ==
    /\ pc[r] = "dispatch"
    /\ \/ /\ InvokesEngine(args[r].analysis_level)
          /\ engine_runs' = [engine_runs EXCEPT ![r] = Append(@, EngineCall(r))]
       \/ /\ ~InvokesEngine(args[r].analysis_level)
          /\ UNCHANGED engine_runs
    /\ Goto(r, "exit")
    /\ UNCHANGED << args, gui_runs, validator_runs, layout, pipeline_config, st,
                    config_file, data_config, data_config_file, written, fs,
                    clock >>

\* line 326
Finish(r) ==
    /\ pc[r] = "exit"
    /\ Exit(r, 326, ExitStatusAt(326))
    /\ UNCHANGED << args, gui_runs, validator_runs, layout, pipeline_config, st,
                    config_file, data_config, data_config_file, written,
                    engine_runs, fs, clock >>

\* ------------------------------------------------------- specifications
Next ==
    \E r \in OneRun :
        \/ CheckGui(r)
        \/ CheckBidsDir(r)
        \/ CheckOutputDir(r)
        \/ Validate(r)
        \/ LoadPipelineConfig(r)
        \/ ConformPipelineConfig(r)
        \/ WritePipelineConfig(r)
        \/ GroupExit(r)
        \/ ScanDataset(r)
        \/ LoadDataConfig(r)
        \/ SelectParticipant(r)
        \/ WriteDataConfig(r)
        \/ Dispatch(r)
        \/ Finish(r)

\* one run of the script
Spec == Init /\ [][Next]_vars

\* lines 208-209: the clock that time.time() reads moves on
Tick ==
    /\ clock < MaxClock
    /\ clock' = clock + 1
    /\ UNCHANGED << args, pc, exit_status, exit_at, exception, gui_runs,
                    validator_runs, layout, pipeline_config, st, config_file,
                    data_config, data_config_file, written, engine_runs, fs >>

\* two participant level runs started side by side (lines 40-46), each with
\* the default pipeline file, no optional argument of the merger and a data
\* config file of MaxSubjects subjects
TwoRuns == {1, 2}

InitPar == InitRuns(TwoRuns)

ParOutputDirs == { <<"/", "o">>, <<"s", "3", ":", "/", "/", "b">> }

ParBase == [num_ants_threads |-> 2]

ParList == [i \in 1..MaxSubjects |-> SubjectName(i)]

NextPar ==
    \/ Tick
    \/ \E r \in TwoRuns :
          \/ CheckGuiWith(r, "participant")
          \/ CheckBidsDir(r)
          \/ \E output_dir \in ParOutputDirs : CheckOutputDirWith(r, output_dir)
          \/ Validate(r)
          \/ LoadPipelineConfigFrom(r, {ParBase})
          \/ ConformPipelineConfigWith(r, DefaultInputs)
          \/ WritePipelineConfig(r)
          \/ GroupExit(r)
          \/ ScanDataset(r)
          \/ LoadDataConfigFrom(r, {ParList})
          \/ SelectParticipant(r)
          \/ WriteDataConfig(r)
          \/ Dispatch(r)
          \/ Finish(r)

SpecPar == InitPar /\ [][NextPar]_vars


\* ------------------------------------------------------------ properties
Ended(r) == pc[r] = "done"

Status(r) == Val(exit_status[r])

Range(f) == { f[i] : i \in DOMAIN f }

\* lines 142-189 ran to their end: the pipeline config is resolved
Resolved(r) == "disable_log" \in DOMAIN pipeline_config[r]

\* p is a path below the directory dir
Under(p, dir) == StartsWith(p, dir \o <<"/">>)

PipelineConfigWritten(r) ==
    /\ config_file[r] # None
    /\ Len(written[r]) >= 1
    /\ written[r][1] = Val(config_file[r])
    /\ Val(config_file[r]) \in DOMAIN fs

DataConfigWritten(r) ==
    /\ data_config_file[r] # None
    /\ Len(written[r]) = 2
    /\ written[r][2] = Val(data_config_file[r])
    /\ Val(data_config_file[r]) \in DOMAIN fs

BothWritten(r) == PipelineConfigWritten(r) /\ DataConfigWritten(r)

\* the run ended by a sys.exit that reports no failure and no missing
\* directory: the group exit of line 227 or the last line
NoFatalEnd(r) == Ended(r) /\ exit_at[r] \in {227, 326}

\* ---- C1
SubMarker == <<"s", "u", "b", "-">>

\* the claim's normalize: the leading "sub-" is dropped
StripMarker(label) ==
    IF StartsWith(label, SubMarker) THEN SubSeq(label, 5, Len(label)) ELSE label

\* C1: on the scan path with participant labels L and discovered subjects D,
\* the resolved subject list holds exactly normalize(L) \cap D, each with
\* "sub-" prepended, and the run goes on when some label is missing.
C1_LabelFilter ==
    \A r \in Runs :
        (layout[r] # None /\ Truthy(args[r].participant_label)) =>
            LET D == Val(layout[r])
                L == { StripMarker(l) : l \in Val(args[r].participant_label) }
                expected == { SubMarker \o x : x \in L \cap D }
            IN  expected # {} =>
                    /\ exception[r] = ""
                    /\ "subjectList" \in DOMAIN data_config[r]
                    /\ Range(data_config[r].subjectList) = expected

\* ---- C2
\* C2: with a participant index i and a subject list of length k, if
\* 0 <= i < k the data config written holds the list [list[i]], otherwise
\* the run ends with status 1 and the data config is not written.
C2_IndexSelection ==
    \A r \in Runs :
        (Ended(r) /\ HasArg(r, "participant_ndx") /\ Truthy(args[r].participant_ndx)) =>
            LET i == Val(args[r].participant_ndx)
                list == data_config[r].subjectList
            IN  IF 0 <= i /\ i < Len(list)
                THEN /\ DataConfigWritten(r)
                     /\ fs[Val(data_config_file[r])].subjectList = << list[i + 1] >>
                ELSE /\ Status(r) = 1
                     /\ ~DataConfigWritten(r)

\* ---- C3
\* C3: the execution engine is never invoked with an empty subject list.
C3_NonEmptyAtDispatch ==
    \A r \in Runs :
        \A n \in DOMAIN engine_runs[r] : engine_runs[r][n].subjectList # <<>>

C5_RetentionRefused ==
    \A r \in Runs :
        Resolved(r) =>
            /\ {"removeWorkingDir", "disable_log"} \subseteq DOMAIN pipeline_config[r]
            /\ (IsS3Url(args[r].output_dir) /\ args[r].save_working_dir) =>
                  /\ "workingDirectory" \in DOMAIN pipeline_config[r]
                  /\ pipeline_config[r].workingDirectory = PathJoin(Scratch, <<"working">>)
                  /\ pipeline_config[r].removeWorkingDir = TRUE


\* ---- C6
DirectoryKeys == {"outputDirectory", "workingDirectory", "logDirectory", "crashLogDirectory"}

\* C6 as claimed: with a local output directory the output, working, log
\* and crash directories are all under it; with an s3:// output directory
\* the working, crash and log directories are under /scratch.
C6_DirsFollowOutputDir ==
    \A r \in Runs :
        Resolved(r) =>
            LET cfg == pipeline_config[r]
                out == args[r].output_dir
            IN  IF ~IsS3Url(out)
                THEN \A k \in DirectoryKeys :
                        k \in DOMAIN cfg /\ Under(cfg[k], out)
                ELSE \A k \in DirectoryKeys \ {"outputDirectory"} :
                        k \in DOMAIN cfg /\ Under(cfg[k], Scratch)

\* C6: the output directory is always under output_dir.  If output_dir does
\* not contain "s3://" (in any case of letters), the crash and log
\* directories are under it, and the working directory is output_dir/working
\* with --save_working_dir and /scratch/working without.  If it contains
\* "s3://", the crash and log directories are under /scratch; the working
\* directory is /scratch/working without --save_working_dir, and with it the
\* merger assigns none, so that it is absent or the base configuration's.
C6_DirsByRetention ==
    \A r \in Runs :
        Resolved(r) =>
            LET cfg == pipeline_config[r]
                out == args[r].output_dir
                save == args[r].save_working_dir
            IN  /\ Under(cfg.outputDirectory, out)
                /\ IF ~MentionsS3(out)
                   THEN /\ Under(cfg.crashLogDirectory, out)
                        /\ Under(cfg.logDirectory, out)
                        /\ cfg.workingDirectory =
                              IF save THEN PathJoin(out, <<"working">>)
                              ELSE PathJoin(Scratch, <<"working">>)
                   ELSE /\ Under(cfg.crashLogDirectory, Scratch)
                        /\ Under(cfg.logDirectory, Scratch)
                        /\ ~save => cfg.workingDirectory = PathJoin(Scratch, <<"working">>)
                        /\ save =>
                              \/ "workingDirectory" \notin DOMAIN cfg
                              \/ \E base \in BaseConfigs :
                                    /\ "workingDirectory" \in DOMAIN base
                                    /\ cfg.workingDirectory = base.workingDirectory

C6_Witness ==
    \E r \in Runs :
        /\ pc[r] = "write_pipeline_config"
        /\ ~IsS3Url(args[r].output_dir)
        /\ ~args[r].save_working_dir
        /\ Under(pipeline_config[r].crashLogDirectory, args[r].output_dir)
        /\ ~Under(pipeline_config[r].workingDirectory, args[r].output_dir)

C8_MemoryPrecedence ==
    \A r \in Runs :
        "maximumMemoryPerParticipant" \in DOMAIN pipeline_config[r] =>
            LET mem == pipeline_config[r].maximumMemoryPerParticipant
                gb == args[r].mem_gb
                mb == args[r].mem_mb
            IN  /\ gb # None => mem = 1024 * Val(gb)
                /\ (gb = None /\ mb # None) => mem = Val(mb)
                /\ (gb = None /\ mb = None) => mem = 6 * 1024

C8_Witness ==
    \E r \in Runs :
        /\ pc[r] = "write_pipeline_config"
        /\ args[r].mem_gb = Some(0)
        /\ args[r].mem_mb # None
        /\ pipeline_config[r].maximumMemoryPerParticipant = 0

C10_NoSharedPath ==
    \A r1 \in Runs, r2 \in Runs :
        (/\ r1 # r2
         /\ HasArg(r1, "participant_ndx") /\ HasArg(r2, "participant_ndx")
         /\ Truthy(args[r1].participant_ndx) /\ Truthy(args[r2].participant_ndx)
         /\ NdxInRange(Val(args[r1].participant_ndx), data_config[r1].subjectList)
         /\ NdxInRange(Val(args[r2].participant_ndx), data_config[r2].subjectList)
         /\ args[r1].participant_ndx # args[r2].participant_ndx
         /\ args[r1].analysis_level = "participant"
         /\ args[r2].analysis_level = "participant"
         /\ args[r1].output_dir = args[r2].output_dir
         /\ st[r1] = st[r2]) =>
            Range(written[r1]) \cap Range(written[r2]) = {}

====
